---- MODULE Spec2Model ----
(***************************************************************************)
(* A model of the glusterfs-containers-tests functional test glue: the     *)
(* HeketiBaseClass helpers (cnslibs/common/heketi_libs.py) and the test    *)
(* scenarios that drive Heketi, OpenShift and Gluster through their        *)
(* collaborator wrappers.  The collaborators are black boxes: every call   *)
(* result is drawn from the outcomes its caller distinguishes.             *)
(***************************************************************************)
EXTENDS Integers, Sequences, FiniteSets, TLC

\* ------------------------------------------------------------------ bounds
MaxIds == 3          \* longest volume id list handed to delete_volumes
MaxClasses == 3      \* test classes whose setUpClass runs in one test run
MaxClock == 2        \* minutes the wall clock may advance during a run
MaxNodes == 4        \* most nodes Heketi lists

VolumeIdSet == {"v1", "v2"}

VARIABLES
    scn,            \* the scenario (helper call or test method) being run
    pc,             \* position inside the scenario
    exc,            \* exception that ended the scenario ("none" if none)
    volume_ids,     \* argument of delete_volumes / delete_block_volumes
    delete_calls,   \* ids handed to heketi_*_delete, in call order
    delete_outs,    \* what each of those calls returned
    errored_ids,    \* delete_volumes' local list of failures
    g_config,       \* g.config['glustotest_run_id']: <<>> when absent
    cls_run_id,     \* cls.glustotest_run_id of each class set up so far
    cls_calls,      \* collaborator calls of the latest setUpClass, in order
    clock,          \* datetime.now(), in minutes
    failed_step,    \* the step whose failure ended the scenario ("" if none)
    caught,         \* steps whose failure an except clause swallowed
    cleanups,       \* the addCleanup stack of the running test
    cluster,        \* resources that exist on the cluster
    created,        \* every resource the running test has created
    pvc_list,       \* self.pvc_list of the gluster stability fixture
    os_version,     \* what get_openshift_version() returns: <<major, minor>>
    skip_me,        \* TestPvResizeClass.skip_me (FALSE while the attribute is unset)
    enable_calls,   \* number of enable_pvc_resize calls
    methods_done,   \* what setUp decided for each test method so far
    heketi,         \* Heketi's nodes, in heketi_node_list order, and their devices
    node_i,         \* position of the discovery loop in node_id_list
    nodes,          \* _pv_resize's dict: node id -> free space of its device
    exceed_free_space,  \* argument of _pv_resize
    available_size_gb,  \* _pv_resize's available_size_gb (0 before it is set)
    pvc_size,       \* size in GB of the PVC under test (0 before it exists)
    resize_request, \* size in GB handed to resize_pvc (0 before the call)
    min_space_gb,   \* test_volume_creation_no_free_devices' min_space_gb
    device_id,      \* device of the first volume's first brick: <<node, device>>
    vol_fail,       \* how the volume creation that is expected to fail ended
    out_final,      \* how the volume creation after the re-enable ended
    heketi0,        \* Heketi's nodes and devices as the test found them
    node_calls,     \* node ids handed to heketi_node_disable, in call order
    device_calls,   \* disable / enable calls issued for device_id, in order
    teardown,       \* the cleanups doCleanups has run, in the order they ran
    service,        \* the service the restart test is run with
    g_nodes,        \* number of nodes hosting the block hosting volume
    restarts,       \* restart_service_on_gluster_pod_or_node calls, in order
    svc_checks,     \* status checks that returned true: <<node, service, state>>
    validated,      \* validate_volumes_and_blocks has run
    write_before,   \* when the pod last wrote before the restart (seconds)
    write_after,    \* when the pod last wrote by the second reading (seconds)
    start_io_time,  \* get_io_time() before the restart (-1 before the call)
    resume_io_time  \* get_io_time() after the restart (-1 before the call)

libVars == <<volume_ids, delete_calls, delete_outs, errored_ids>>
classVars == <<g_config, cls_run_id, cls_calls, clock>>
runVars == <<cleanups, cluster, created>>
stabVars == <<pvc_list>>
gateVars == <<os_version, skip_me, enable_calls, methods_done>>
hekVars == <<heketi, node_i, nodes, exceed_free_space, available_size_gb,
             pvc_size, resize_request>>
volVars == <<min_space_gb, device_id, vol_fail, out_final>>
histVars == <<heketi0, node_calls, device_calls, teardown>>
svcVars == <<service, g_nodes, restarts, svc_checks, validated>>
ioVars == <<write_before, write_after, start_io_time, resume_io_time>>
vars == <<scn, pc, exc, failed_step, caught, libVars, classVars, runVars,
          stabVars, gateVars, hekVars, volVars, histVars, svcVars, ioVars>>

\* ------------------------------------------------- unittest result kinds
\* How the test runner reports an exception that leaves a test or fixture.
Outcome(e) ==
    IF e = "none" THEN "pass"
    ELSE IF e = "AssertionError" THEN "failure"
    ELSE IF e = "SkipTest" THEN "skip"
    ELSE "error"

\* ------------------------------------------------- heketi_libs.py helpers
\* isinstance(volume_ids, (list, set, tuple))
IsCollection(arg) == arg.kind \in {"list", "set", "tuple"}

\* if not isinstance(...): volume_ids = [volume_ids]
NormaliseIds(arg) == IF IsCollection(arg) THEN arg.ids ELSE <<arg.id>>

\* output_str = 'Volume %s deleted' % volume_id
OutputStr(volume_id) == <<"Volume", volume_id, "deleted">>

\* what heketi_volume_delete may return
VolumeDeleteOuts == {OutputStr(v) : v \in VolumeIdSet} \cup {<<"Error">>}

\* delete_volumes as it would be if it gave up at the first failed deletion
RECURSIVE DeleteVolumesLoopStopAtFailure(_, _, _, _)
DeleteVolumesLoopStopAtFailure(ids, outs, i, acc) ==
    IF i > Len(ids) THEN acc
    ELSE IF outs[i] /= OutputStr(ids[i])
    THEN [called  |-> Append(acc.called, ids[i]),
          errored |-> Append(acc.errored, ids[i])]
    ELSE DeleteVolumesLoopStopAtFailure(ids, outs, i + 1,
            [called  |-> Append(acc.called, ids[i]),
             errored |-> acc.errored])

\* the for loop of delete_volumes, from position i on
RECURSIVE DeleteVolumesLoop(_, _, _, _)
DeleteVolumesLoop(ids, outs, i, acc) ==
    IF i > Len(ids) THEN acc
    ELSE DeleteVolumesLoop(ids, outs, i + 1,
            [called  |-> Append(acc.called, ids[i]),
             errored |-> IF outs[i] /= OutputStr(ids[i])
                         THEN Append(acc.errored, ids[i])
                         ELSE acc.errored])

\* delete_block_volumes as it would be if each round overwrote the flag
RECURSIVE DeleteBlockVolumesLoopLastWins(_, _, _, _)
DeleteBlockVolumesLoopLastWins(ids, outs, i, acc) ==
    IF i > Len(ids) THEN acc
    ELSE DeleteBlockVolumesLoopLastWins(ids, outs, i + 1,
            [called |-> Append(acc.called, ids[i]),
             fail   |-> outs[i] = FALSE])

\* the for loop of delete_block_volumes, from position i on
RECURSIVE DeleteBlockVolumesLoop(_, _, _, _)
DeleteBlockVolumesLoop(ids, outs, i, acc) ==
    IF i > Len(ids) THEN acc
    ELSE DeleteBlockVolumesLoop(ids, outs, i + 1,
            [called |-> Append(acc.called, ids[i]),
             fail   |-> IF outs[i] = FALSE THEN TRUE ELSE acc.fail])

\* the arguments a caller may pass: one id, or a list / tuple / set of ids
\* (a set in the order its iteration yields)
RECURSIVE SeqsUpTo(_, _)
SeqsUpTo(S, n) ==
    IF n = 0 THEN {<<>>}
    ELSE LET shorter == SeqsUpTo(S, n - 1)
         IN  shorter \cup {Append(s, x) : s \in shorter, x \in S}

IdArguments ==
    {[kind |-> "str", id |-> v, ids |-> <<>>] : v \in VolumeIdSet}
    \cup {[kind |-> k, id |-> "", ids |-> s] :
            k \in {"list", "tuple"}, s \in SeqsUpTo(VolumeIdSet, MaxIds)}

NoArgument == [kind |-> "none", id |-> "", ids |-> <<>>]

\* ------------------------------------------------------ test-run plumbing
\* what a collaborator call that raises may raise
CollabErrors == {"ExecutionError", "AssertionError"}
CallResults == {"ok"} \cup CollabErrors

Res(kind, n) == [kind |-> kind, n |-> n]
Cleanup(fn, res) == [fn |-> fn, res |-> res]

\* an exception leaves the test method or fixture at `step`
Raise(step, e) ==
    /\ exc' = e
    /\ failed_step' = step
    /\ pc' = "cleanup"

\* the test method or fixture returned normally
Return ==
    /\ exc' = "none"
    /\ failed_step' = ""
    /\ pc' = "cleanup"

\* HeketiBaseClass.delete_volumes
DeleteVolumes ==
    /\ scn = "delete_volumes" /\ pc = "call"
    /\ LET ids == NormaliseIds(volume_ids)
       IN \E outs \in [1..Len(ids) -> VolumeDeleteOuts] :
            LET r == DeleteVolumesLoop(ids, outs, 1,
                                       [called |-> <<>>, errored |-> <<>>])
            IN /\ delete_calls' = r.called
               /\ delete_outs' = outs
               /\ errored_ids' = r.errored
               /\ exc' = IF r.errored /= <<>> THEN "ExecutionError" ELSE "none"
               /\ failed_step' =
                    IF \E i \in 1..Len(ids) : outs[i] /= OutputStr(ids[i])
                    THEN "heketi_volume_delete" ELSE ""
    /\ pc' = "done"
    /\ UNCHANGED <<scn, caught, volume_ids, classVars, runVars, stabVars,
                   gateVars, hekVars, volVars,
                   histVars, svcVars, ioVars>>

\* HeketiBaseClass.delete_block_volumes
DeleteBlockVolumes ==
    /\ scn = "delete_block_volumes" /\ pc = "call"
    /\ LET ids == NormaliseIds(volume_ids)
       IN \E outs \in [1..Len(ids) -> {TRUE, FALSE}] :
            LET r == DeleteBlockVolumesLoop(ids, outs, 1,
                                            [called |-> <<>>, fail |-> FALSE])
            IN /\ delete_calls' = r.called
               /\ delete_outs' = outs
               /\ exc' = IF r.fail THEN "AssertionError" ELSE "none"
               /\ failed_step' =
                    IF \E i \in 1..Len(ids) : outs[i] = FALSE
                    THEN "heketi_blockvolume_delete" ELSE ""
    /\ pc' = "done"
    /\ UNCHANGED <<scn, caught, volume_ids, errored_ids, classVars, runVars,
                   stabVars,
                   gateVars, hekVars, volVars,
                   histVars, svcVars, ioVars>>

Call(fn, ret) == [fn |-> fn, ret |-> ret]

\* setUpClass as it would be if it switched the project before the
\* liveness check
SetUpClassSwitchFirst ==
    /\ scn = "setUpClass" /\ pc = "call"
    /\ Len(cls_run_id) < MaxClasses
    /\ \E alive \in BOOLEAN, switched \in BOOLEAN :
         IF ~switched
         THEN /\ cls_calls' = <<Call("switch_oc_project", switched)>>
              /\ exc' = "ExecutionError"
              /\ failed_step' = "switch_oc_project"
              /\ cls_run_id' = Append(cls_run_id, <<>>)
              /\ UNCHANGED g_config
         ELSE IF ~alive
         THEN /\ cls_calls' = <<Call("switch_oc_project", switched),
                                Call("hello_heketi", alive)>>
              /\ exc' = "ConfigError"
              /\ failed_step' = "hello_heketi"
              /\ cls_run_id' = Append(cls_run_id, <<>>)
              /\ UNCHANGED g_config
         ELSE /\ cls_calls' = <<Call("switch_oc_project", switched),
                                Call("hello_heketi", alive)>>
              /\ exc' = "none"
              /\ failed_step' = ""
              /\ g_config' = IF g_config = <<>> THEN <<clock>> ELSE g_config
              /\ cls_run_id' = Append(cls_run_id, g_config')
    /\ UNCHANGED <<scn, pc, caught, clock, libVars, runVars, stabVars,
                   gateVars, hekVars, volVars,
                   histVars, svcVars, ioVars>>

\* setUpClass as it would be without the "not in g.config" test: every
\* class stamps the configuration anew
SetUpClassStampsAnew ==
    /\ scn = "setUpClass" /\ pc = "call"
    /\ Len(cls_run_id) < MaxClasses
    /\ \E alive \in BOOLEAN, switched \in BOOLEAN :
         IF ~alive
         THEN /\ cls_calls' = <<Call("hello_heketi", alive)>>
              /\ exc' = "ConfigError"
              /\ failed_step' = "hello_heketi"
              /\ cls_run_id' = Append(cls_run_id, <<>>)
              /\ UNCHANGED g_config
         ELSE IF ~switched
         THEN /\ cls_calls' = <<Call("hello_heketi", alive),
                                Call("switch_oc_project", switched)>>
              /\ exc' = "ExecutionError"
              /\ failed_step' = "switch_oc_project"
              /\ cls_run_id' = Append(cls_run_id, <<>>)
              /\ UNCHANGED g_config
         ELSE /\ cls_calls' = <<Call("hello_heketi", alive),
                                Call("switch_oc_project", switched)>>
              /\ exc' = "none"
              /\ failed_step' = ""
              /\ g_config' = <<clock>>
              /\ cls_run_id' = Append(cls_run_id, g_config')
    /\ UNCHANGED <<scn, pc, caught, clock, libVars, runVars, stabVars,
                   gateVars, hekVars, volVars,
                   histVars, svcVars, ioVars>>

\* HeketiBaseClass.setUpClass, for the next test class of the run
SetUpClass ==
    /\ scn = "setUpClass" /\ pc = "call"
    /\ Len(cls_run_id) < MaxClasses
    /\ \E alive \in BOOLEAN, switched \in BOOLEAN :
         IF ~alive
         THEN /\ cls_calls' = <<Call("hello_heketi", alive)>>
              /\ exc' = "ConfigError"
              /\ failed_step' = "hello_heketi"
              /\ cls_run_id' = Append(cls_run_id, <<>>)
              /\ UNCHANGED g_config
         ELSE IF ~switched
         THEN /\ cls_calls' = <<Call("hello_heketi", alive),
                                Call("switch_oc_project", switched)>>
              /\ exc' = "ExecutionError"
              /\ failed_step' = "switch_oc_project"
              /\ cls_run_id' = Append(cls_run_id, <<>>)
              /\ UNCHANGED g_config
         ELSE /\ cls_calls' = <<Call("hello_heketi", alive),
                                Call("switch_oc_project", switched)>>
              /\ exc' = "none"
              /\ failed_step' = ""
              /\ g_config' = IF g_config = <<>> THEN <<clock>> ELSE g_config
              /\ cls_run_id' = Append(cls_run_id, g_config')
    /\ UNCHANGED <<scn, pc, caught, clock, libVars, runVars, stabVars,
                   gateVars, hekVars, volVars,
                   histVars, svcVars, ioVars>>

\* time passes between the test classes of a run
Tick ==
    /\ scn = "setUpClass"
    /\ clock < MaxClock
    /\ clock' = clock + 1
    /\ UNCHANGED <<scn, pc, exc, failed_step, caught, libVars, g_config,
                   cls_run_id, cls_calls, runVars, stabVars,
                   gateVars, hekVars, volVars,
                   histVars, svcVars, ioVars>>

\* ----------------------------------------------------------- test teardown
\* what a registered cleanup does to the cluster when it runs
CleanupEffect(c, cl) ==
    IF c.fn \in {"oc_delete", "heketi_volume_delete"} THEN cl \ {c.res}
    ELSE cl

\* what heketi_node_enable / heketi_device_enable do to Heketi when they run
CleanupHeketi(c, h) ==
    IF c.fn = "heketi_node_enable"
    THEN [h EXCEPT ![c.res.n].state = "online"]
    ELSE IF c.fn = "heketi_device_enable"
    THEN [h EXCEPT ![c.res.n].devices[c.res.d].state = "online"]
    ELSE h

\* doCleanups: the cleanup registered last runs first
RunCleanup ==
    /\ pc = "cleanup" /\ cleanups /= <<>>
    /\ cluster' = CleanupEffect(cleanups[Len(cleanups)], cluster)
    /\ heketi' = CleanupHeketi(cleanups[Len(cleanups)], heketi)
    /\ cleanups' = SubSeq(cleanups, 1, Len(cleanups) - 1)
    /\ teardown' = Append(teardown, cleanups[Len(cleanups)])
    /\ UNCHANGED <<scn, pc, exc, failed_step, caught, created, libVars,
                   classVars, stabVars, gateVars, node_i, nodes,
                   exceed_free_space, available_size_gb, pvc_size,
                   resize_request, volVars, heketi0, node_calls,
                   device_calls, svcVars, ioVars>>

\* every cleanup has run: the test is over
FinishTest ==
    /\ pc = "cleanup" /\ cleanups = <<>>
    /\ pc' = "done"
    /\ UNCHANGED <<scn, exc, failed_step, caught, libVars, classVars, runVars,
                   stabVars,
                   gateVars, hekVars, volVars,
                   histVars, svcVars, ioVars>>

\* ------------------------------------- test_restart_gluster_services.py
pvccount == 10

\* a resource is created and the cleanups that follow it are registered
CreateAndRegister(res, cs) ==
    /\ cluster' = cluster \cup {res}
    /\ created' = created \cup {res}
    /\ cleanups' = cleanups \o cs

\* deploy_resouces: oc_create_secret and its cleanup
StabCreateSecret ==
    /\ scn = "stability" /\ pc = "create_secret"
    /\ \E r \in CallResults :
         IF r = "ok"
         THEN /\ CreateAndRegister(Res("secret", 0),
                    <<Cleanup("oc_delete", Res("secret", 0))>>)
              /\ pc' = "create_sc"
              /\ UNCHANGED <<exc, failed_step>>
         ELSE /\ Raise("oc_create_secret", r)
              /\ UNCHANGED runVars
    /\ UNCHANGED <<scn, caught, libVars, classVars, stabVars,
                   gateVars, hekVars, volVars,
                   histVars, svcVars, ioVars>>

\* deploy_resouces: oc_create_sc and its cleanup
StabCreateSc ==
    /\ scn = "stability" /\ pc = "create_sc"
    /\ \E r \in CallResults :
         IF r = "ok"
         THEN /\ CreateAndRegister(Res("sc", 0),
                    <<Cleanup("oc_delete", Res("sc", 0))>>)
              /\ pc' = "create_pvc"
              /\ UNCHANGED <<exc, failed_step>>
         ELSE /\ Raise("oc_create_sc", r)
              /\ UNCHANGED runVars
    /\ UNCHANGED <<scn, caught, libVars, classVars, stabVars,
                   gateVars, hekVars, volVars,
                   histVars, svcVars, ioVars>>

\* deploy_resouces: oc_create_pvc of the application PVC and its cleanups
StabCreatePvc ==
    /\ scn = "stability" /\ pc = "create_pvc"
    /\ \E r \in CallResults :
         IF r = "ok"
         THEN /\ CreateAndRegister(Res("pvc", 0),
                    <<Cleanup("wait_for_resource_absence", Res("pvc", 0)),
                      Cleanup("oc_delete", Res("pvc", 0))>>)
              /\ pc' = "create_dc"
              /\ UNCHANGED <<exc, failed_step>>
         ELSE /\ Raise("oc_create_pvc", r)
              /\ UNCHANGED runVars
    /\ UNCHANGED <<scn, caught, libVars, classVars, stabVars,
                   gateVars, hekVars, volVars,
                   histVars, svcVars, ioVars>>

\* deploy_resouces: oc_create_app_dc_with_io and its cleanups
StabCreateDc ==
    /\ scn = "stability" /\ pc = "create_dc"
    /\ \E r \in CallResults :
         IF r = "ok"
         THEN /\ CreateAndRegister(Res("dc", 0),
                    <<Cleanup("oc_delete", Res("dc", 0)),
                      Cleanup("scale_dc_pod_amount_and_wait", Res("dc", 0))>>)
              /\ pc' = "verify"
              /\ UNCHANGED <<exc, failed_step>>
         ELSE /\ Raise("oc_create_app_dc_with_io", r)
              /\ UNCHANGED runVars
    /\ UNCHANGED <<scn, caught, libVars, classVars, stabVars,
                   gateVars, hekVars, volVars,
                   histVars, svcVars, ioVars>>

\* setUp: oc_get_yaml, get_pod_name_from_dc, wait_for_pod_be_ready and
\* verify_pvc_status_is_bound, then self.pvc_list = []
StabVerify ==
    /\ scn = "stability" /\ pc = "verify"
    /\ \E r \in CallResults :
         IF r = "ok"
         THEN /\ pc' = "create_pvcs"
              /\ pvc_list' = <<>>
              /\ UNCHANGED <<exc, failed_step>>
         ELSE /\ Raise("verify_deployment", r)
              /\ UNCHANGED pvc_list
    /\ UNCHANGED <<scn, caught, libVars, classVars, runVars,
                   gateVars, hekVars, volVars,
                   histVars, svcVars, ioVars>>

\* setUp: one round of "for pvc in range(self.pvccount)"
StabCreateTestPvc ==
    /\ scn = "stability" /\ pc = "create_pvcs"
    /\ Len(pvc_list) < pvccount
    /\ LET res == Res("pvc", Len(pvc_list) + 1)
       IN \E r \in CallResults :
            IF r = "ok"
            THEN /\ CreateAndRegister(res,
                       <<Cleanup("wait_for_resource_absence", res)>>)
                 /\ pvc_list' = Append(pvc_list, res)
                 /\ UNCHANGED <<pc, exc, failed_step>>
            ELSE /\ Raise("oc_create_pvc", r)
                 /\ UNCHANGED <<runVars, pvc_list>>
    /\ UNCHANGED <<scn, caught, libVars, classVars,
                   gateVars, hekVars, volVars,
                   histVars, svcVars, ioVars>>

\* setUp: "for pvc_name in self.pvc_list: self.addCleanup(oc_delete, ...)"
StabRegisterPvcDeletes ==
    /\ scn = "stability" /\ pc = "create_pvcs"
    /\ Len(pvc_list) = pvccount
    /\ cleanups' = cleanups \o
            [i \in 1..Len(pvc_list) |-> Cleanup("oc_delete", pvc_list[i])]
    /\ pc' = "test"
    /\ UNCHANGED <<scn, exc, failed_step, caught, cluster, created, libVars,
                   classVars, stabVars,
                   gateVars, hekVars, volVars,
                   histVars, svcVars, ioVars>>

\* the test method that runs after setUp: it passes, fails, skips or errors
StabTestBody ==
    /\ scn = "stability" /\ pc = "test"
    /\ \E r \in CallResults \cup {"SkipTest"} :
         IF r = "ok" THEN Return ELSE Raise("test_method", r)
    /\ UNCHANGED <<scn, caught, libVars, classVars, runVars, stabVars,
                   gateVars, hekVars, volVars,
                   histVars, svcVars, ioVars>>

\* ------------------------------------------------- test_pv_resize.py
\* the test methods of TestPvResizeClass (ddt expands the first one twice)
PvResizeMethods ==
    <<"test_pv_resize_with_prefix_for_name_1",
      "test_pv_resize_with_prefix_for_name_2",
      "test_pv_resize_no_free_space",
      "test_pv_resize_by_exact_free_space",
      "test_pv_resize_try_shrink_pv_size">>

\* versions get_openshift_version() may report
Versions == {<<3, 6>>, <<3, 7>>, <<3, 9>>, <<3, 10>>, <<3, 11>>, <<4, 1>>}

\* version < "3.9": the ordering of cnslibs.common.openshift_version
VersionLess(v, w) == v[1] < w[1] \/ (v[1] = w[1] /\ v[2] < w[2])

\* setUpClass as it would be without the "return" after cls.skip_me = True
PvResizeSetUpClassNoReturn ==
    /\ scn = "pv_resize_class" /\ pc = "setUpClass"
    /\ skip_me' = (skip_me \/ VersionLess(os_version, <<3, 9>>))
    /\ enable_calls' = enable_calls + 1
    /\ pc' = "setUp"
    /\ UNCHANGED <<scn, exc, failed_step, caught, os_version, methods_done,
                   libVars, classVars, runVars, stabVars, hekVars, volVars,
                   histVars, svcVars, ioVars>>

\* TestPvResizeClass.setUpClass
PvResizeSetUpClass ==
    /\ scn = "pv_resize_class" /\ pc = "setUpClass"
    /\ IF VersionLess(os_version, <<3, 9>>)
       THEN /\ skip_me' = TRUE
            /\ UNCHANGED enable_calls
       ELSE /\ enable_calls' = enable_calls + 1
            /\ UNCHANGED skip_me
    /\ pc' = "setUp"
    /\ UNCHANGED <<scn, exc, failed_step, caught, os_version, methods_done,
                   libVars, classVars, runVars, stabVars, hekVars, volVars,
                   histVars, svcVars, ioVars>>

\* TestPvResizeClass.setUp, for the next test method of the class
PvResizeSetUp ==
    /\ scn = "pv_resize_class" /\ pc = "setUp"
    /\ Len(methods_done) < Len(PvResizeMethods)
    /\ IF skip_me
       THEN /\ methods_done' = Append(methods_done, "skipped")
            /\ exc' = "SkipTest"
            /\ failed_step' = "setUp"
       ELSE /\ methods_done' = Append(methods_done, "ran")
            /\ exc' = "none"
            /\ failed_step' = ""
    /\ UNCHANGED <<scn, pc, caught, os_version, skip_me, enable_calls,
                   libVars, classVars, runVars, stabVars, hekVars, volVars,
                   histVars, svcVars, ioVars>>

GB == 1024 * 1024
pvc_size_gb == 1
min_free_space_gb == 3
\* the threshold as it would be with min_free_space_gb = 1
MinFreeSpaceOneGb == GB

min_free_space == min_free_space_gb * GB

Dev(state, free) == [state |-> state, free |-> free]
Node(state, devices) == [state |-> state, devices |-> devices]
DevRes(nid, j) == [kind |-> "device", n |-> nid, d |-> j]

\* nodes Heketi may hold: their state and their devices' state and free KiB
NodeMenu ==
    { Node("offline", <<Dev("online", 5 * GB)>>),
      Node("online", <<>>),
      Node("online", <<Dev("online", 3 * GB)>>),
      Node("online", <<Dev("online", 4 * GB + GB \div 2),
                       Dev("online", 3 * GB)>>),
      Node("online", <<Dev("online", 2 * GB + GB \div 2),
                       Dev("online", 5 * GB)>>),
      Node("online", <<Dev("offline", 5 * GB),
                       Dev("online", 4 * GB + GB \div 2)>>) }

Topologies == UNION {[1..n -> NodeMenu] : n \in 1..MaxNodes}

\* heketi_node_disable / heketi_device_disable
DisableNode(h, nid) == [h EXCEPT ![nid].state = "offline"]
DisableDevice(h, nid, j) == [h EXCEPT ![nid].devices[j].state = "offline"]

\* nodes[node_id] = free_space
Put(d, k, v) == [x \in DOMAIN d \cup {k} |-> IF x = k THEN v ELSE d[x]]

\* min(nodes.values())
MinValue(d) == CHOOSE v \in {d[k] : k \in DOMAIN d} :
                    \A k \in DOMAIN d : v <= d[k]

\* the device loop as it would be without the "node_id in nodes.keys()"
\* test: every device with enough free space is recorded and left online
RECURSIVE PvResizeDeviceLoopKeepAll(_, _, _, _, _)
PvResizeDeviceLoopKeepAll(st, nid, devices, j, failAt) ==
    IF j > Len(devices) \/ st.failed THEN st
    ELSE IF devices[j].state /= "online"
    THEN PvResizeDeviceLoopKeepAll(st, nid, devices, j + 1, failAt)
    ELSE IF devices[j].free < min_free_space
    THEN IF st.calls + 1 = failAt
         THEN [st EXCEPT !.calls = @ + 1, !.failed = TRUE]
         ELSE PvResizeDeviceLoopKeepAll(
                [st EXCEPT !.calls = @ + 1,
                           !.h = DisableDevice(@, nid, j),
                           !.cl = Append(@, Cleanup("heketi_device_enable",
                                                    DevRes(nid, j)))],
                nid, devices, j + 1, failAt)
    ELSE PvResizeDeviceLoopKeepAll(
            [st EXCEPT !.nodes = Put(@, nid, devices[j].free)],
            nid, devices, j + 1, failAt)

\* "for device in node_info['devices']" of _pv_resize, from device j on; the
\* failAt-th disable call of the round returns a false value
RECURSIVE PvResizeDeviceLoop(_, _, _, _, _)
PvResizeDeviceLoop(st, nid, devices, j, failAt) ==
    IF j > Len(devices) \/ st.failed THEN st
    ELSE IF devices[j].state /= "online"
    THEN PvResizeDeviceLoop(st, nid, devices, j + 1, failAt)
    ELSE IF nid \in DOMAIN st.nodes \/ devices[j].free < min_free_space
    THEN IF st.calls + 1 = failAt
         THEN [st EXCEPT !.calls = @ + 1, !.failed = TRUE]
         ELSE PvResizeDeviceLoop(
                [st EXCEPT !.calls = @ + 1,
                           !.h = DisableDevice(@, nid, j),
                           !.cl = Append(@, Cleanup("heketi_device_enable",
                                                    DevRes(nid, j)))],
                nid, devices, j + 1, failAt)
    ELSE PvResizeDeviceLoop(
            [st EXCEPT !.nodes = Put(@, nid, devices[j].free)],
            nid, devices, j + 1, failAt)

\* one round of "for node_id in node_id_list" of _pv_resize
PvResizeNodeRound(st, nid, failAt) ==
    LET node_info == st.h[nid]
    IN  IF node_info.state /= "online" \/ node_info.devices = <<>>
        THEN st
        ELSE IF Cardinality(DOMAIN st.nodes) > 2
        THEN IF failAt = 1
             THEN [st EXCEPT !.calls = 1, !.failed = TRUE]
             ELSE PvResizeDeviceLoop(
                    [st EXCEPT !.calls = 1,
                               !.h = DisableNode(@, nid),
                               !.cl = Append(@, Cleanup("heketi_node_enable",
                                                        Res("node", nid)))],
                    nid, node_info.devices, 1, failAt)
        ELSE PvResizeDeviceLoop(st, nid, node_info.devices, 1, failAt)

\* _pv_resize: the discovery loop, one node per step
PvResizeDiscover ==
    /\ scn = "pv_resize" /\ pc = "discover"
    /\ node_i <= Len(heketi)
    /\ \E failAt \in 0..(1 + Len(heketi[node_i].devices)) :
         LET st == PvResizeNodeRound(
                     [h |-> heketi, nodes |-> nodes, cl |-> cleanups,
                      calls |-> 0, failed |-> FALSE], node_i, failAt)
         IN /\ failAt = 0 \/ st.failed
            /\ heketi' = st.h
            /\ nodes' = st.nodes
            /\ cleanups' = st.cl
            /\ IF st.failed
               THEN /\ Raise("heketi_disable", "AssertionError")
                    /\ UNCHANGED node_i
               ELSE /\ node_i' = node_i + 1
                    /\ pc' = IF node_i = Len(heketi) THEN "select"
                                                     ELSE "discover"
                    /\ UNCHANGED <<exc, failed_step>>
    /\ UNCHANGED <<scn, caught, cluster, created, exceed_free_space,
                   available_size_gb, pvc_size, resize_request,
                   libVars, classVars, stabVars, gateVars, volVars,
                   histVars, svcVars, ioVars>>

\* _pv_resize: the skip test and available_size_gb
PvResizeSelect ==
    /\ scn = "pv_resize" /\ pc = "select"
    /\ IF Cardinality(DOMAIN nodes) < 3
       THEN /\ Raise("find_nodes", "SkipTest")
            /\ UNCHANGED available_size_gb
       ELSE /\ available_size_gb' = MinValue(nodes) \div GB
            /\ pc' = "create_sc"
            /\ UNCHANGED <<exc, failed_step>>
    /\ UNCHANGED <<scn, caught, heketi, node_i, nodes, exceed_free_space,
                   pvc_size, resize_request,
                   libVars, classVars, runVars, stabVars, gateVars, volVars,
                   histVars, svcVars, ioVars>>

\* _pv_resize: self.create_storage_class, which registers the deletion of
\* the storage class it creates
PvResizeCreateSc ==
    /\ scn = "pv_resize" /\ pc = "create_sc"
    /\ \E r \in CallResults :
         IF r = "ok"
         THEN /\ CreateAndRegister(Res("sc", 0),
                    <<Cleanup("oc_delete", Res("sc", 0))>>)
              /\ pc' = "create_pvc"
              /\ UNCHANGED <<exc, failed_step>>
         ELSE /\ Raise("create_storage_class", r)
              /\ UNCHANGED runVars
    /\ UNCHANGED <<scn, caught, libVars, classVars, stabVars, gateVars,
                   hekVars, volVars,
                   histVars, svcVars, ioVars>>

\* _pv_resize: self.create_and_wait_for_pvc(pvc_size=pvc_size_gb), which
\* registers the deletion of the PVC it creates
PvResizeCreatePvc ==
    /\ scn = "pv_resize" /\ pc = "create_pvc"
    /\ \E r \in CallResults :
         IF r = "ok"
         THEN /\ CreateAndRegister(Res("pvc", 0),
                    <<Cleanup("wait_for_resource_absence", Res("pvc", 0)),
                      Cleanup("oc_delete", Res("pvc", 0))>>)
              /\ pvc_size' = pvc_size_gb
              /\ pc' = "create_dc"
              /\ UNCHANGED <<exc, failed_step>>
         ELSE /\ Raise("create_and_wait_for_pvc", r)
              /\ UNCHANGED <<runVars, pvc_size>>
    /\ UNCHANGED <<scn, caught, heketi, node_i, nodes, exceed_free_space,
                   available_size_gb, resize_request,
                   libVars, classVars, stabVars, gateVars, volVars,
                   histVars, svcVars, ioVars>>

\* _pv_resize: oc_create_app_dc_with_io and its two cleanups
PvResizeCreateDc ==
    /\ scn = "pv_resize" /\ pc = "create_dc"
    /\ \E r \in CallResults :
         IF r = "ok"
         THEN /\ CreateAndRegister(Res("dc", 0),
                    <<Cleanup("oc_delete", Res("dc", 0)),
                      Cleanup("scale_dc_pod_amount_and_wait", Res("dc", 0))>>)
              /\ pc' = "pod_ready"
              /\ UNCHANGED <<exc, failed_step>>
         ELSE /\ Raise("oc_create_app_dc_with_io", r)
              /\ UNCHANGED runVars
    /\ UNCHANGED <<scn, caught, libVars, classVars, stabVars, gateVars,
                   hekVars, volVars,
                   histVars, svcVars, ioVars>>

\* _pv_resize: get_pod_name_from_dc and wait_for_pod_be_ready
PvResizePodReady ==
    /\ scn = "pv_resize" /\ pc = "pod_ready"
    /\ \E r \in CallResults :
         IF r = "ok"
         THEN /\ pc' = "resize"
              /\ UNCHANGED <<exc, failed_step>>
         ELSE Raise("wait_for_pod_be_ready", r)
    /\ UNCHANGED <<scn, caught, libVars, classVars, runVars, stabVars,
                   gateVars, hekVars, volVars,
                   histVars, svcVars, ioVars>>

\* _pv_resize, exceed_free_space: resize_pvc(available_size_gb)
PvResizeExceed ==
    /\ scn = "pv_resize" /\ pc = "resize" /\ exceed_free_space
    /\ resize_request' = available_size_gb
    /\ \E r \in CallResults :
         IF r = "ok"
         THEN /\ pc' = "wait_resize_failed"
              /\ UNCHANGED <<exc, failed_step>>
         ELSE Raise("resize_pvc", r)
    /\ UNCHANGED <<scn, caught, heketi, node_i, nodes, exceed_free_space,
                   available_size_gb, pvc_size,
                   libVars, classVars, runVars, stabVars, gateVars, volVars,
                   histVars, svcVars, ioVars>>

\* _pv_resize, exceed_free_space: the wait for VolumeResizeFailed, the pod
\* check and the write
PvResizeAfterExceed ==
    /\ scn = "pv_resize" /\ pc = "wait_resize_failed"
    /\ \E r \in CallResults :
         IF r = "ok" THEN Return ELSE Raise("wait_for_events", r)
    /\ UNCHANGED <<scn, caught, libVars, classVars, runVars, stabVars,
                   gateVars, hekVars, volVars,
                   histVars, svcVars, ioVars>>

\* _pv_resize, not exceed_free_space: resize_pvc(expand_size_gb), the size
\* verifications and the wait for VolumeResizeSuccessful
PvResizeExpand ==
    /\ scn = "pv_resize" /\ pc = "resize" /\ ~exceed_free_space
    /\ LET expand_size_gb == available_size_gb - pvc_size_gb
       IN /\ resize_request' = expand_size_gb
          /\ \E r \in CallResults :
               IF r = "ok"
               THEN /\ pvc_size' = expand_size_gb
                    /\ pc' = "write"
                    /\ UNCHANGED <<exc, failed_step>>
               ELSE /\ Raise("resize_pvc", r)
                    /\ UNCHANGED pvc_size
    /\ UNCHANGED <<scn, caught, heketi, node_i, nodes, exceed_free_space,
                   available_size_gb,
                   libVars, classVars, runVars, stabVars, gateVars, volVars,
                   histVars, svcVars, ioVars>>

\* _pv_resize, not exceed_free_space: the pod is recreated and written to
PvResizeWrite ==
    /\ scn = "pv_resize" /\ pc = "write"
    /\ \E r \in CallResults :
         IF r = "ok" THEN Return ELSE Raise("write_expanded_pvc", r)
    /\ UNCHANGED <<scn, caught, libVars, classVars, runVars, stabVars,
                   gateVars, hekVars, volVars,
                   histVars, svcVars, ioVars>>

\* --------------------- test_volume_creation.py and test_disabling_device.py
\* node_info_list: the infos of node_id_list[0:3]
FirstNodes(h) == 1..(IF Len(h) < 3 THEN Len(h) ELSE 3)

\* the node the loop variables node_id and node_info are left at after the
\* "for node_id in node_id_list[0:3]" and "for node_info in ..." loops
LastOfFirstNodes(h) == IF Len(h) < 3 THEN Len(h) ELSE 3

\* "for device in node_info['devices'][1:]", from device j on; the failAt-th
\* disable call of the round returns a false value
RECURSIVE OtherDevicesLoop(_, _, _, _, _)
OtherDevicesLoop(st, nid, devices, j, failAt) ==
    IF j > Len(devices) \/ st.failed THEN st
    ELSE IF st.calls + 1 = failAt
    THEN [st EXCEPT !.calls = @ + 1, !.failed = TRUE]
    ELSE OtherDevicesLoop(
            [st EXCEPT !.calls = @ + 1,
                       !.h = DisableDevice(@, nid, j),
                       !.cl = Append(@, Cleanup("heketi_device_enable",
                                                DevRes(nid, j)))],
            nid, devices, j + 1, failAt)

\* one round of "for node_info in node_info_list[0:3]": the device checks
\* and the disabling of the second and later devices; then `next`
DisableDevicesRound(next) ==
    /\ pc = "disable_devices"
    /\ node_i \in FirstNodes(heketi)
    /\ LET devices == heketi[node_i].devices
       IN IF devices = <<>>
          THEN /\ Raise("node_has_devices", "AssertionError")
               /\ UNCHANGED <<heketi, cleanups, node_i>>
          ELSE IF devices[1].state /= "online"
          THEN /\ Raise("first_device_online", "SkipTest")
               /\ UNCHANGED <<heketi, cleanups, node_i>>
          ELSE \E failAt \in 0..(Len(devices) - 1) :
                 LET st == OtherDevicesLoop(
                             [h |-> heketi, cl |-> cleanups, calls |-> 0,
                              failed |-> FALSE], node_i, devices, 2, failAt)
                 IN /\ heketi' = st.h
                    /\ cleanups' = st.cl
                    /\ IF st.failed
                       THEN /\ Raise("heketi_device_disable", "AssertionError")
                            /\ UNCHANGED node_i
                       ELSE /\ node_i' = node_i + 1
                            /\ pc' = IF node_i + 1 \in FirstNodes(heketi)
                                     THEN "disable_devices" ELSE next
                            /\ UNCHANGED <<exc, failed_step>>
    /\ UNCHANGED <<scn, caught, cluster, created, nodes, exceed_free_space,
                   available_size_gb, pvc_size, resize_request,
                   libVars, classVars, stabVars, gateVars, volVars,
                   histVars, svcVars, ioVars>>

\* what an unchecked heketi_node_disable call may do
NodeDisableResults == {"ok", "false", "raise"}

\* "for node_id in node_id_list[3:]" of test_volume_creation_no_free_devices,
\* from the k-th node on
RECURSIVE VolDisableNodesLoop(_, _, _)
VolDisableNodesLoop(st, k, outs) ==
    IF k > Len(st.h) \/ st.failed THEN st
    ELSE IF outs[k] = "raise"
    THEN [st EXCEPT !.calls = Append(@, k), !.failed = TRUE]
    ELSE VolDisableNodesLoop(
            [st EXCEPT !.calls = Append(@, k),
                       !.h = IF outs[k] = "ok" THEN DisableNode(@, k) ELSE @,
                       !.cl = Append(@, Cleanup("heketi_node_enable",
                                                Res("node", k)))],
            k + 1, outs)

\* test_volume_creation_no_free_devices: "Disable 4th and other nodes"
VolDisableNodes ==
    /\ scn = "no_free_devices" /\ pc = "disable_nodes"
    /\ \E outs \in [4..Len(heketi) -> NodeDisableResults] :
         LET st == VolDisableNodesLoop(
                     [h |-> heketi, cl |-> cleanups, calls |-> <<>>,
                      failed |-> FALSE], 4, outs)
         IN /\ heketi' = st.h
            /\ node_calls' = st.calls
            /\ cleanups' = st.cl
            /\ IF st.failed
               THEN Raise("heketi_node_disable", "ExecutionError")
               ELSE /\ pc' = "disable_devices"
                    /\ UNCHANGED <<exc, failed_step>>
    /\ UNCHANGED <<scn, caught, cluster, created, node_i, nodes,
                   exceed_free_space, available_size_gb, pvc_size,
                   resize_request, libVars, classVars, stabVars, gateVars,
                   volVars, heketi0, device_calls, teardown, svcVars,
                   ioVars>>

\* test_volume_creation_no_free_devices: "Disable second and other devices"
VolDisableDevices ==
    /\ scn = "no_free_devices"
    /\ DisableDevicesRound("min_space")

\* available_spaces: one entry per node info, each read from node_info
AvailableSpaces(h) ==
    [n \in FirstNodes(h) |-> h[LastOfFirstNodes(h)].devices[1].free]

\* int(min(available_spaces) / 1024**2)
MinSpaceGb(h) == MinValue(AvailableSpaces(h)) \div GB

\* test_volume_creation_no_free_devices: "Calculate common available space"
VolMinSpace ==
    /\ scn = "no_free_devices" /\ pc = "min_space"
    /\ min_space_gb' = MinSpaceGb(heketi)
    /\ IF min_space_gb' > 3
       THEN /\ pc' = "first_volume"
            /\ UNCHANGED <<exc, failed_step>>
       ELSE Raise("enough_free_space", "AssertionError")
    /\ UNCHANGED <<scn, caught, device_id, vol_fail, out_final,
                   libVars, classVars, runVars, stabVars, gateVars, hekVars,
                   histVars, svcVars, ioVars>>

\* test_volume_creation_no_free_devices: "Create first small volume"
VolFirstVolume ==
    /\ scn = "no_free_devices" /\ pc = "first_volume"
    /\ \E r \in CallResults \cup {"falsy"} :
         IF r = "ok"
         THEN /\ CreateAndRegister(Res("volume", 1),
                    <<Cleanup("heketi_volume_delete", Res("volume", 1))>>)
              /\ pc' = "second_volume"
              /\ UNCHANGED <<exc, failed_step>>
         ELSE /\ Raise("heketi_volume_create",
                       IF r = "falsy" THEN "TypeError" ELSE r)
              /\ UNCHANGED runVars
    /\ UNCHANGED <<scn, caught, libVars, classVars, stabVars, gateVars,
                   hekVars, volVars,
                   histVars, svcVars, ioVars>>

\* how a volume creation that the test expects to fail may end
CreateResults == {"ExecutionError", "AssertionError", "created", "falsy"}

\* the second creation as it would be if the except clause caught every
\* exception
VolSecondVolumeCatchAll ==
    /\ scn = "no_free_devices" /\ pc = "second_volume"
    /\ \E r \in CreateResults :
         /\ vol_fail' = r
         /\ IF r \in {"ExecutionError", "AssertionError"}
            THEN /\ caught' = caught \cup {"heketi_volume_create"}
                 /\ Return
                 /\ UNCHANGED runVars
            ELSE IF r = "created"
            THEN /\ CreateAndRegister(Res("volume", 2),
                       <<Cleanup("heketi_volume_delete", Res("volume", 2))>>)
                 /\ Raise("volume_not_created", "AssertionError")
                 /\ UNCHANGED caught
            ELSE /\ Raise("volume_not_created", "TypeError")
                 /\ UNCHANGED <<caught, runVars>>
    /\ UNCHANGED <<scn, min_space_gb, device_id, out_final,
                   libVars, classVars, stabVars, gateVars, hekVars,
                   histVars, svcVars, ioVars>>

\* test_volume_creation_no_free_devices: "Try to create second volume"
VolSecondVolume ==
    /\ scn = "no_free_devices" /\ pc = "second_volume"
    /\ \E r \in CreateResults :
         /\ vol_fail' = r
         /\ IF r = "ExecutionError"
            THEN /\ caught' = caught \cup {"heketi_volume_create"}
                 /\ Return
                 /\ UNCHANGED runVars
            ELSE IF r = "AssertionError"
            THEN /\ Raise("heketi_volume_create", r)
                 /\ UNCHANGED <<caught, runVars>>
            ELSE IF r = "created"
            THEN /\ CreateAndRegister(Res("volume", 2),
                       <<Cleanup("heketi_volume_delete", Res("volume", 2))>>)
                 /\ Raise("volume_not_created", "AssertionError")
                 /\ UNCHANGED caught
            ELSE /\ Raise("volume_not_created", "TypeError")
                 /\ UNCHANGED <<caught, runVars>>
    /\ UNCHANGED <<scn, min_space_gb, device_id, out_final,
                   libVars, classVars, stabVars, gateVars, hekVars,
                   histVars, svcVars, ioVars>>

\* "for node in node_id_list[3:]" of the device test: every round disables
\* node_id, the node the first loop stopped at
RECURSIVE DisDisableNodesLoop(_, _, _)
DisDisableNodesLoop(st, k, outs) ==
    IF k > Len(st.h) \/ st.failed THEN st
    ELSE IF outs[k] = "raise"
    THEN [st EXCEPT !.calls = Append(@, LastOfFirstNodes(st.h)),
                    !.failed = TRUE]
    ELSE DisDisableNodesLoop(
            [st EXCEPT !.calls = Append(@, LastOfFirstNodes(st.h)),
                       !.h = IF outs[k] = "ok"
                             THEN DisableNode(@, LastOfFirstNodes(@)) ELSE @,
                       !.cl = Append(@, Cleanup("heketi_node_enable",
                                        Res("node", LastOfFirstNodes(st.h))))],
            k + 1, outs)

\* test_create_volumes_enabling_and_disabling_heketi_devices: "Disable 4th
\* and other nodes"
DisDisableNodes ==
    /\ scn = "disabling_device" /\ pc = "disable_nodes"
    /\ \E outs \in [4..Len(heketi) -> NodeDisableResults] :
         LET st == DisDisableNodesLoop(
                     [h |-> heketi, cl |-> cleanups, calls |-> <<>>,
                      failed |-> FALSE], 4, outs)
         IN /\ heketi' = st.h
            /\ node_calls' = st.calls
            /\ cleanups' = st.cl
            /\ IF st.failed
               THEN Raise("heketi_node_disable", "ExecutionError")
               ELSE /\ pc' = "disable_devices"
                    /\ UNCHANGED <<exc, failed_step>>
    /\ UNCHANGED <<scn, caught, cluster, created, node_i, nodes,
                   exceed_free_space, available_size_gb, pvc_size,
                   resize_request, libVars, classVars, stabVars, gateVars,
                   volVars, heketi0, device_calls, teardown, svcVars,
                   ioVars>>

\* the device test: "Disable second and other devices on the first 3 nodes"
DisDisableDevices ==
    /\ scn = "disabling_device"
    /\ DisableDevicesRound("first_volume")

\* devices Heketi can place a brick on
OnlineDevices(h) ==
    {<<n, j>> \in (1..Len(h)) \X (1..2) :
        /\ h[n].state = "online"
        /\ j <= Len(h[n].devices)
        /\ h[n].devices[j].state = "online"}

\* the device test: "Create heketi volume" and the choice of device_id
DisFirstVolume ==
    /\ scn = "disabling_device" /\ pc = "first_volume"
    /\ \/ \E d \in OnlineDevices(heketi) :
            /\ CreateAndRegister(Res("volume", 1),
                   <<Cleanup("heketi_volume_delete", Res("volume", 1))>>)
            /\ device_id' = d
            /\ pc' = "disable_device"
            /\ UNCHANGED <<exc, failed_step>>
       \/ \E e \in CollabErrors :
            /\ Raise("heketi_volume_create", e)
            /\ UNCHANGED <<runVars, device_id>>
    /\ UNCHANGED <<scn, caught, min_space_gb, vol_fail, out_final,
                   libVars, classVars, stabVars, gateVars, hekVars,
                   histVars, svcVars, ioVars>>

\* what a call whose return value is asserted may do
CheckedResults == {"ok", "falsy"}

\* the device test: "Disable device"
DisDisableDevice ==
    /\ scn = "disabling_device" /\ pc = "disable_device"
    /\ \E r \in CheckedResults :
         /\ device_calls' = Append(device_calls,
                                    Call("heketi_device_disable", r))
         /\ IF r = "ok"
            THEN /\ heketi' = DisableDevice(heketi, device_id[1],
                                            device_id[2])
                 /\ pc' = "try"
                 /\ UNCHANGED <<exc, failed_step>>
            ELSE /\ Raise("heketi_device_disable", "AssertionError")
                 /\ UNCHANGED heketi
    /\ UNCHANGED <<scn, caught, node_i, nodes, exceed_free_space,
                   available_size_gb, pvc_size, resize_request,
                   libVars, classVars, runVars, stabVars, gateVars, volVars,
                   heketi0, node_calls, teardown, svcVars, ioVars>>

\* the try block as it would be without the finally clause: a failure
\* leaves the test at once
DisTryNoFinally ==
    /\ scn = "disabling_device" /\ pc = "try"
    /\ \/ /\ \E info \in CheckedResults :
                \/ info = "falsy"
                \/ heketi[device_id[1]].devices[device_id[2]].state
                       /= "offline"
          /\ Raise("heketi_device_info", "AssertionError")
          /\ UNCHANGED <<caught, runVars, vol_fail>>
       \/ /\ heketi[device_id[1]].devices[device_id[2]].state = "offline"
          /\ \E r \in CreateResults :
               /\ vol_fail' = r
               /\ IF r = "AssertionError"
                  THEN /\ caught' = caught \cup {"heketi_volume_create"}
                       /\ pc' = "finally"
                       /\ UNCHANGED <<exc, failed_step, runVars>>
                  ELSE IF r = "ExecutionError"
                  THEN /\ Raise("heketi_volume_create", r)
                       /\ UNCHANGED <<caught, runVars>>
                  ELSE IF r = "created"
                  THEN /\ CreateAndRegister(Res("volume", 2),
                             <<Cleanup("heketi_volume_delete",
                                       Res("volume", 2))>>)
                       /\ Raise("volume_not_created", "AssertionError")
                       /\ UNCHANGED caught
                  ELSE /\ Raise("volume_not_created", "TypeError")
                       /\ UNCHANGED <<caught, runVars>>
    /\ UNCHANGED <<scn, min_space_gb, device_id, out_final,
                   libVars, classVars, stabVars, gateVars, hekVars,
                   histVars, svcVars, ioVars>>

\* the try block as it would be if the assert came before addCleanup
DisTryAssertFirst ==
    /\ scn = "disabling_device" /\ pc = "try"
    /\ pc' = "finally"
    /\ \/ /\ \E info \in CheckedResults :
                \/ info = "falsy"
                \/ heketi[device_id[1]].devices[device_id[2]].state
                       /= "offline"
          /\ exc' = "AssertionError"
          /\ failed_step' = "heketi_device_info"
          /\ UNCHANGED <<caught, runVars, vol_fail>>
       \/ /\ heketi[device_id[1]].devices[device_id[2]].state = "offline"
          /\ \E r \in CreateResults :
               /\ vol_fail' = r
               /\ IF r = "AssertionError"
                  THEN /\ caught' = caught \cup {"heketi_volume_create"}
                       /\ UNCHANGED <<exc, failed_step, runVars>>
                  ELSE IF r = "ExecutionError"
                  THEN /\ exc' = r
                       /\ failed_step' = "heketi_volume_create"
                       /\ UNCHANGED <<caught, runVars>>
                  ELSE IF r = "created"
                  THEN /\ cluster' = cluster \cup {Res("volume", 2)}
                       /\ created' = created \cup {Res("volume", 2)}
                       /\ exc' = "AssertionError"
                       /\ failed_step' = "volume_not_created"
                       /\ UNCHANGED <<caught, cleanups>>
                  ELSE /\ exc' = "TypeError"
                       /\ failed_step' = "volume_not_created"
                       /\ UNCHANGED <<caught, runVars>>
    /\ UNCHANGED <<scn, min_space_gb, device_id, out_final,
                   libVars, classVars, stabVars, gateVars, hekVars,
                   histVars, svcVars, ioVars>>

\* the device test: the try block, up to the point where control reaches
\* the finally clause; exc holds the exception in flight
DisTry ==
    /\ scn = "disabling_device" /\ pc = "try"
    /\ pc' = "finally"
    /\ \/ /\ \E info \in CheckedResults :
                \/ info = "falsy"
                \/ heketi[device_id[1]].devices[device_id[2]].state
                       /= "offline"
          /\ exc' = "AssertionError"
          /\ failed_step' = "heketi_device_info"
          /\ UNCHANGED <<caught, runVars, vol_fail>>
       \/ /\ heketi[device_id[1]].devices[device_id[2]].state = "offline"
          /\ \E r \in CreateResults :
               /\ vol_fail' = r
               /\ IF r = "AssertionError"
                  THEN /\ caught' = caught \cup {"heketi_volume_create"}
                       /\ UNCHANGED <<exc, failed_step, runVars>>
                  ELSE IF r = "ExecutionError"
                  THEN /\ exc' = r
                       /\ failed_step' = "heketi_volume_create"
                       /\ UNCHANGED <<caught, runVars>>
                  ELSE IF r = "created"
                  THEN /\ CreateAndRegister(Res("volume", 2),
                             <<Cleanup("heketi_volume_delete",
                                       Res("volume", 2))>>)
                       /\ exc' = "AssertionError"
                       /\ failed_step' = "volume_not_created"
                       /\ UNCHANGED caught
                  ELSE /\ exc' = "TypeError"
                       /\ failed_step' = "volume_not_created"
                       /\ UNCHANGED <<caught, runVars>>
    /\ UNCHANGED <<scn, min_space_gb, device_id, out_final,
                   libVars, classVars, stabVars, gateVars, hekVars,
                   histVars, svcVars, ioVars>>

\* the finally clause as it would be if it ended with a return, which
\* discards the exception in flight
DisFinallyReturns ==
    /\ scn = "disabling_device" /\ pc = "finally"
    /\ device_calls' = Append(device_calls,
                               Call("heketi_device_enable", "issued"))
    /\ \E r \in CheckedResults :
         IF r = "ok"
         THEN /\ heketi' = [heketi EXCEPT
                    ![device_id[1]].devices[device_id[2]].state = "online"]
              /\ pc' = "cleanup"
              /\ exc' = "none"
              /\ failed_step' = ""
         ELSE /\ Raise("heketi_device_enable", "AssertionError")
              /\ UNCHANGED heketi
    /\ UNCHANGED <<scn, caught, node_i, nodes, exceed_free_space,
                   available_size_gb, pvc_size, resize_request,
                   libVars, classVars, runVars, stabVars, gateVars, volVars,
                   heketi0, node_calls, teardown, svcVars, ioVars>>

\* the device test: the finally clause, "Enable the device back"
DisFinally ==
    /\ scn = "disabling_device" /\ pc = "finally"
    /\ device_calls' = Append(device_calls,
                               Call("heketi_device_enable", "issued"))
    /\ \E r \in CheckedResults :
         IF r = "ok"
         THEN /\ heketi' = [heketi EXCEPT
                    ![device_id[1]].devices[device_id[2]].state = "online"]
              /\ pc' = IF exc = "none" THEN "check_online" ELSE "cleanup"
              /\ UNCHANGED <<exc, failed_step>>
         ELSE /\ Raise("heketi_device_enable", "AssertionError")
              /\ UNCHANGED heketi
    /\ UNCHANGED <<scn, caught, node_i, nodes, exceed_free_space,
                   available_size_gb, pvc_size, resize_request,
                   libVars, classVars, runVars, stabVars, gateVars, volVars,
                   heketi0, node_calls, teardown, svcVars, ioVars>>

\* the device test: the device info after the re-enable
DisCheckOnline ==
    /\ scn = "disabling_device" /\ pc = "check_online"
    /\ \E r \in CheckedResults :
         IF r = "ok"
            /\ heketi[device_id[1]].devices[device_id[2]].state = "online"
         THEN /\ pc' = "final_volume"
              /\ UNCHANGED <<exc, failed_step>>
         ELSE Raise("heketi_device_info", "AssertionError")
    /\ UNCHANGED <<scn, caught, libVars, classVars, runVars, stabVars,
                   gateVars, hekVars, volVars,
                   histVars, svcVars, ioVars>>

\* the device test: "Create heketi volume of size"
DisFinalVolume ==
    /\ scn = "disabling_device" /\ pc = "final_volume"
    /\ \E r \in CreateResults :
         /\ out_final' = r
         /\ IF r = "created"
            THEN /\ CreateAndRegister(Res("volume", 3),
                       <<Cleanup("heketi_volume_delete", Res("volume", 3))>>)
                 /\ pc' = "volume_info"
                 /\ UNCHANGED <<exc, failed_step>>
            ELSE /\ Raise("heketi_volume_create",
                          IF r = "falsy" THEN "AssertionError" ELSE r)
                 /\ UNCHANGED runVars
    /\ UNCHANGED <<scn, caught, min_space_gb, device_id, vol_fail,
                   libVars, classVars, stabVars, gateVars, hekVars,
                   histVars, svcVars, ioVars>>

\* the device test: "Get gluster volume info"
DisVolumeInfo ==
    /\ scn = "disabling_device" /\ pc = "volume_info"
    /\ \E r \in CheckedResults :
         IF r = "ok" THEN Return
         ELSE Raise("get_volume_info", "AssertionError")
    /\ UNCHANGED <<scn, caught, libVars, classVars, runVars, stabVars,
                   gateVars, hekVars, volVars,
                   histVars, svcVars, ioVars>>

\* ------------------- test_restart_services_provision_volume_and_run_io
MaxGNodes == 4       \* most nodes that host the block hosting volume

SERVICE_TARGET == "gluster-block-target"
SERVICE_BLOCKD == "gluster-blockd"
SERVICE_TCMU == "tcmu-runner"

\* @ddt.data(SERVICE_BLOCKD, SERVICE_TCMU, SERVICE_TARGET)
DdtServices == {SERVICE_BLOCKD, SERVICE_TCMU, SERVICE_TARGET}

\* for service in (SERVICE_BLOCKD, SERVICE_TCMU, SERVICE_TARGET)
CheckedServices == <<SERVICE_BLOCKD, SERVICE_TCMU, SERVICE_TARGET>>

\* the expected sub-state as it would be if every service had to be running
ServiceStateAlwaysRunning(svc) == "running"

\* state = "exited" if service == SERVICE_TARGET else "running"
ServiceState(svc) == IF svc = SERVICE_TARGET THEN "exited" ELSE "running"

\* the status a service may be found in: <<active state, sub-state>>
ServiceStatuses ==
    {<<"active", "running">>, <<"active", "exited">>, <<"inactive", "dead">>}

\* get_block_hosting_volume_by_pvc_name, get_gluster_vol_hosting_nodes and
\* assertGreater(len(g_nodes), 2)
RestartGetNodes ==
    /\ scn = "restart_services" /\ pc = "hosting_nodes"
    /\ \/ \E n \in 0..MaxGNodes :
            /\ g_nodes' = n
            /\ IF n > 2
               THEN /\ pc' = "restart"
                    /\ UNCHANGED <<exc, failed_step>>
               ELSE Raise("hosting_nodes_count", "AssertionError")
       \/ \E e \in CollabErrors :
            /\ Raise("get_gluster_vol_hosting_nodes", e)
            /\ UNCHANGED g_nodes
    /\ UNCHANGED <<scn, caught, service, restarts, svc_checks, validated,
                   libVars, classVars, runVars, stabVars, gateVars, hekVars,
                   volVars, histVars, ioVars>>

\* restart_service_on_gluster_pod_or_node(self.oc_node, service, g_nodes[0])
RestartService ==
    /\ scn = "restart_services" /\ pc = "restart"
    /\ restarts' = Append(restarts, <<service, 1>>)
    /\ \E r \in CallResults :
         IF r = "ok"
         THEN /\ pc' = "pod_ready"
              /\ UNCHANGED <<exc, failed_step>>
         ELSE Raise("restart_service_on_gluster_pod_or_node", r)
    /\ UNCHANGED <<scn, caught, service, g_nodes, svc_checks, validated,
                   libVars, classVars, runVars, stabVars, gateVars, hekVars,
                   volVars, histVars, ioVars>>

\* wait_for_pod_be_ready after the restart
RestartPodReady ==
    /\ scn = "restart_services" /\ pc = "pod_ready"
    /\ \E r \in CallResults :
         IF r = "ok"
         THEN /\ pc' = "check_services"
              /\ UNCHANGED <<exc, failed_step>>
         ELSE Raise("wait_for_pod_be_ready", r)
    /\ UNCHANGED <<scn, caught, libVars, classVars, runVars, stabVars,
                   gateVars, hekVars, volVars, histVars, svcVars, ioVars>>

\* one round of "for g_node in g_nodes: for service in (...)": the status
\* the service is found in decides what the wait returns
RestartCheckService ==
    /\ scn = "restart_services" /\ pc = "check_services"
    /\ LET k == Cardinality(svc_checks)
           g_node == (k \div 3) + 1
           svc == CheckedServices[(k % 3) + 1]
       IN \E status \in ServiceStatuses :
            IF status = <<"active", ServiceState(svc)>>
            THEN /\ svc_checks' = svc_checks \cup {<<g_node, svc, status>>}
                 /\ pc' = IF k + 1 = 3 * g_nodes THEN "validate"
                                                 ELSE "check_services"
                 /\ UNCHANGED <<exc, failed_step>>
            ELSE /\ \E e \in CollabErrors :
                      Raise("wait_for_service_status_on_gluster_pod_or_node",
                            e)
                 /\ UNCHANGED svc_checks
    /\ UNCHANGED <<scn, caught, service, g_nodes, restarts, validated,
                   libVars, classVars, runVars, stabVars, gateVars, hekVars,
                   volVars, histVars, ioVars>>

\* self.validate_volumes_and_blocks()
RestartValidate ==
    /\ scn = "restart_services" /\ pc = "validate"
    /\ validated' = TRUE
    /\ \E r \in CallResults :
         IF r = "ok" THEN Return
         ELSE Raise("validate_volumes_and_blocks", r)
    /\ UNCHANGED <<scn, caught, service, g_nodes, restarts, svc_checks,
                   libVars, classVars, runVars, stabVars, gateVars, hekVars,
                   volVars, histVars, ioVars>>

\* ---------------------------- restart_block_hosting_volume_wait_for_heal
SecondsPerDay == 24 * 60 * 60

\* moments (seconds of real time) at which the pod may have written last:
\* around noon and around the following midnight
WriteTimes ==
    {12 * 3600, 12 * 3600 + 30, 12 * 3600 + 60,
     SecondsPerDay - 15, SecondsPerDay - 5, SecondsPerDay + 5,
     SecondsPerDay + 65}

\* what "ls -l /mnt/ | awk '{print $8}'" and strptime(..., "%H:%M") make of
\* a modification time: the minute of the day
IoTime(t) == (t % SecondsPerDay) \div 60

\* how get_io_time may end
IoTimeResults == {"ok", "AssertionError", "ValueError"}

\* start_io_time = self.get_io_time()
IoGetStartTime ==
    /\ scn = "restart_volume" /\ pc = "start_io"
    /\ \E r \in IoTimeResults :
         IF r = "ok"
         THEN /\ start_io_time' = IoTime(write_before)
              /\ pc' = "restart_volume"
              /\ UNCHANGED <<exc, failed_step>>
         ELSE /\ Raise("get_io_time", r)
              /\ UNCHANGED start_io_time
    /\ UNCHANGED <<scn, caught, write_before, write_after, resume_io_time,
                   libVars, classVars, runVars, stabVars, gateVars, hekVars,
                   volVars, histVars, svcVars>>

\* restart_file_volume(block_hosting_vol) and time.sleep(5): by the second
\* reading the pod has written again or it has not
IoRestartVolume ==
    /\ scn = "restart_volume" /\ pc = "restart_volume"
    /\ \E r \in CallResults :
         IF r = "ok"
         THEN /\ \E t \in WriteTimes :
                   /\ t >= write_before
                   /\ write_after' = t
              /\ pc' = "resume_io"
              /\ UNCHANGED <<exc, failed_step>>
         ELSE /\ Raise("restart_file_volume", r)
              /\ UNCHANGED write_after
    /\ UNCHANGED <<scn, caught, write_before, start_io_time, resume_io_time,
                   libVars, classVars, runVars, stabVars, gateVars, hekVars,
                   volVars, histVars, svcVars>>

\* resume_io_time = self.get_io_time() and
\* assertGreater(resume_io_time, start_io_time, "IO has not stopped")
IoGetResumeTime ==
    /\ scn = "restart_volume" /\ pc = "resume_io"
    /\ \E r \in IoTimeResults :
         IF r = "ok"
         THEN /\ resume_io_time' = IoTime(write_after)
              /\ IF resume_io_time' > start_io_time
                 THEN /\ pc' = "heal"
                      /\ UNCHANGED <<exc, failed_step>>
                 ELSE Raise("io_resumed", "AssertionError")
         ELSE /\ Raise("get_io_time", r)
              /\ UNCHANGED resume_io_time
    /\ UNCHANGED <<scn, caught, write_before, write_after, start_io_time,
                   libVars, classVars, runVars, stabVars, gateVars, hekVars,
                   volVars, histVars, svcVars>>

\* wait_to_heal_complete()
IoWaitHeal ==
    /\ scn = "restart_volume" /\ pc = "heal"
    /\ \E r \in CallResults :
         IF r = "ok" THEN Return
         ELSE Raise("wait_to_heal_complete", r)
    /\ UNCHANGED <<scn, caught, libVars, classVars, runVars, stabVars,
                   gateVars, hekVars, volVars, histVars, svcVars, ioVars>>

\* ---------------------------------------------------------- specification
NoHeketi == <<>>
NoVersion == <<0, 0>>

InitLib ==
    /\ scn \in {"delete_volumes", "delete_block_volumes"}
    /\ pc = "call"
    /\ volume_ids \in IdArguments
    /\ os_version = NoVersion /\ heketi = NoHeketi
    /\ exceed_free_space = FALSE
    /\ service = ""
    /\ write_before = 0

InitClass ==
    /\ scn = "setUpClass"
    /\ pc = "call"
    /\ volume_ids = NoArgument
    /\ os_version = NoVersion /\ heketi = NoHeketi
    /\ exceed_free_space = FALSE
    /\ service = ""
    /\ write_before = 0

InitStability ==
    /\ scn = "stability"
    /\ pc = "create_secret"
    /\ volume_ids = NoArgument
    /\ os_version = NoVersion /\ heketi = NoHeketi
    /\ exceed_free_space = FALSE
    /\ service = ""
    /\ write_before = 0

InitPvResizeClass ==
    /\ scn = "pv_resize_class"
    /\ pc = "setUpClass"
    /\ volume_ids = NoArgument
    /\ os_version \in Versions /\ heketi = NoHeketi
    /\ exceed_free_space = FALSE
    /\ service = ""
    /\ write_before = 0

InitVolumeTests ==
    /\ scn \in {"no_free_devices", "disabling_device"}
    /\ pc = "disable_nodes"
    /\ volume_ids = NoArgument
    /\ os_version = NoVersion /\ heketi \in Topologies
    /\ exceed_free_space = FALSE
    /\ service = ""
    /\ write_before = 0

InitRestartServices ==
    /\ scn = "restart_services"
    /\ pc = "hosting_nodes"
    /\ volume_ids = NoArgument
    /\ os_version = NoVersion /\ heketi = NoHeketi
    /\ exceed_free_space = FALSE
    /\ service \in DdtServices
    /\ write_before = 0

InitRestartVolume ==
    /\ scn = "restart_volume"
    /\ pc = "start_io"
    /\ volume_ids = NoArgument
    /\ os_version = NoVersion /\ heketi = NoHeketi
    /\ exceed_free_space = FALSE
    /\ service = ""
    /\ write_before \in WriteTimes

InitPvResize ==
    /\ scn = "pv_resize"
    /\ pc = "discover"
    /\ volume_ids = NoArgument
    /\ os_version = NoVersion /\ heketi \in Topologies
    /\ exceed_free_space \in BOOLEAN
    /\ service = ""
    /\ write_before = 0

Init ==
    /\ exc = "none" /\ failed_step = "" /\ caught = {}
    /\ delete_calls = <<>> /\ delete_outs = <<>> /\ errored_ids = <<>>
    /\ g_config = <<>> /\ cls_run_id = <<>> /\ cls_calls = <<>> /\ clock = 0
    /\ cleanups = <<>> /\ cluster = {} /\ created = {}
    /\ pvc_list = <<>>
    /\ skip_me = FALSE /\ enable_calls = 0 /\ methods_done = <<>>
    /\ node_i = 1 /\ nodes = <<>> /\ available_size_gb = 0
    /\ pvc_size = 0 /\ resize_request = 0
    /\ min_space_gb = 0 /\ device_id = <<>> /\ vol_fail = "" /\ out_final = ""
    /\ node_calls = <<>> /\ device_calls = <<>>
    /\ teardown = <<>>
    /\ g_nodes = 0 /\ restarts = <<>> /\ svc_checks = {}
    /\ validated = FALSE
    /\ write_after = 0
    /\ start_io_time = -1 /\ resume_io_time = -1
    /\ \/ InitLib
       \/ InitClass
       \/ InitStability
       \/ InitPvResizeClass
       \/ InitPvResize
       \/ InitVolumeTests
       \/ InitRestartServices
       \/ InitRestartVolume
    /\ heketi0 = heketi

Next ==
    \/ DeleteVolumes
    \/ DeleteBlockVolumes
    \/ SetUpClass
    \/ Tick
    \/ RunCleanup
    \/ FinishTest
    \/ StabCreateSecret
    \/ StabCreateSc
    \/ StabCreatePvc
    \/ StabCreateDc
    \/ StabVerify
    \/ StabCreateTestPvc
    \/ StabRegisterPvcDeletes
    \/ StabTestBody
    \/ PvResizeSetUpClass
    \/ PvResizeSetUp
    \/ PvResizeDiscover
    \/ PvResizeSelect
    \/ PvResizeCreateSc
    \/ PvResizeCreatePvc
    \/ PvResizeCreateDc
    \/ PvResizePodReady
    \/ PvResizeExceed
    \/ PvResizeAfterExceed
    \/ PvResizeExpand
    \/ PvResizeWrite
    \/ VolDisableNodes
    \/ VolDisableDevices
    \/ VolMinSpace
    \/ VolFirstVolume
    \/ VolSecondVolume
    \/ DisDisableNodes
    \/ DisDisableDevices
    \/ DisFirstVolume
    \/ DisDisableDevice
    \/ DisTry
    \/ DisFinally
    \/ DisCheckOnline
    \/ DisFinalVolume
    \/ DisVolumeInfo
    \/ RestartGetNodes
    \/ RestartService
    \/ RestartPodReady
    \/ RestartCheckService
    \/ RestartValidate
    \/ IoGetStartTime
    \/ IoRestartVolume
    \/ IoGetResumeTime
    \/ IoWaitHeal

Spec == Init /\ [][Next]_vars

\* ------------------------------------------------------------------ claims
\* C1: every resource a test or fixture created so far has its delete
\* callback registered whenever a later step can still fail, and once the
\* cleanups have run none of the created resources is left on the cluster.
DeleteRegistered(res) ==
    \E i \in 1..Len(cleanups) :
        cleanups[i].fn \in {"oc_delete", "heketi_volume_delete"}
        /\ cleanups[i].res = res

C1_CreatedResourcesAreDeleted ==
    /\ pc \notin {"cleanup", "done"} =>
            \A res \in created : DeleteRegistered(res)
    /\ pc = "done" => created \cap cluster = {}

\* the ids a caller handed over, as a sequence
GivenIds ==
    IF volume_ids.kind = "str" THEN <<volume_ids.id>> ELSE volume_ids.ids

\* the positions of the deletions that did not report 'Volume <id> deleted'
NotReported ==
    {i \in 1..Len(delete_calls) :
        delete_outs[i] /= <<"Volume", delete_calls[i], "deleted">>}

\* s lists the elements of t at the positions in P, in the order of t
ListsPositions(s, t, P) ==
    /\ Len(s) = Cardinality(P)
    /\ \E f \in [1..Len(s) -> P] :
         /\ \A j, k \in 1..Len(s) : j < k => f[j] < f[k]
         /\ \A j \in 1..Len(s) : s[j] = t[f[j]]

\* C3: delete_volumes calls heketi_volume_delete for every given id, in
\* order, whatever the earlier calls returned; it raises ExecutionError if
\* and only if some call did not report 'Volume <id> deleted'; errored_ids
\* is exactly the ids of those calls, in input order; a lone id is treated
\* as a one-element list.
C3_DeleteVolumesReportsAllFailures ==
    (scn = "delete_volumes" /\ pc = "done") =>
        /\ delete_calls = GivenIds
        /\ (exc = "ExecutionError") <=> (NotReported /= {})
        /\ exc \in {"ExecutionError", "none"}
        /\ ListsPositions(errored_ids, GivenIds, NotReported)

\* a list whose first deletion failed and whose last one succeeded
C3_Witness ==
    /\ scn = "delete_volumes" /\ pc = "done"
    /\ volume_ids.kind = "list"
    /\ Len(delete_calls) = 3
    /\ NotReported = {1, 2}
    /\ errored_ids = <<delete_calls[1], delete_calls[2]>>
    /\ exc = "ExecutionError"

\* C4: delete_block_volumes calls heketi_blockvolume_delete for every given
\* id whatever the earlier calls returned, fails its assertion if and only
\* if some call returned False, and otherwise returns normally.
C4_DeleteBlockVolumesFailsIffAnyFalse ==
    (scn = "delete_block_volumes" /\ pc = "done") =>
        /\ delete_calls = GivenIds
        /\ (exc = "AssertionError") <=>
                (\E i \in 1..Len(delete_calls) : delete_outs[i] = FALSE)
        /\ exc \in {"AssertionError", "none"}

\* a list whose first deletion returned False and whose later ones did not
C4_Witness ==
    /\ scn = "delete_block_volumes" /\ pc = "done"
    /\ Len(delete_calls) = 3
    /\ delete_outs[1] = FALSE /\ delete_outs[2] /\ delete_outs[3]
    /\ exc = "AssertionError"

\* C5: setUpClass asks hello_heketi first; a dead server gives ConfigError
\* with no switch_oc_project call and no run id stored; a live server and a
\* failed switch give ExecutionError; the set-up completes only when both
\* calls succeeded.
C5_SetUpClassState ==
    (scn = "setUpClass" /\ cls_calls /= <<>>) =>
        /\ cls_calls[1].fn = "hello_heketi"
        /\ \A i \in 1..Len(cls_calls) :
              cls_calls[i].fn = "switch_oc_project" =>
                  i = 2 /\ cls_calls[1].ret
        /\ ~cls_calls[1].ret =>
              /\ exc = "ConfigError"
              /\ Len(cls_calls) = 1
              /\ cls_run_id[Len(cls_run_id)] = <<>>
        /\ cls_calls[1].ret =>
              /\ Len(cls_calls) = 2
              /\ cls_calls[2].fn = "switch_oc_project"
              /\ ~cls_calls[2].ret => exc = "ExecutionError"
              /\ cls_calls[2].ret => exc = "none"
        /\ exc = "none" => cls_run_id[Len(cls_run_id)] /= <<>>

C5_SetUpClassChecksHeketiFirst ==
    /\ []C5_SetUpClassState
    /\ [][(Len(cls_run_id') > Len(cls_run_id) /\ exc' /= "none")
            => g_config' = g_config]_vars

\* a class whose set-up found the server dead after an earlier class had
\* completed its set-up
C5_Witness ==
    /\ scn = "setUpClass"
    /\ Len(cls_run_id) = 2
    /\ cls_run_id[1] /= <<>>
    /\ cls_calls = <<[fn |-> "hello_heketi", ret |-> FALSE]>>
    /\ exc = "ConfigError"

\* the version is lower than 3.9
Lower39 == os_version[1] < 3 \/ (os_version[1] = 3 /\ os_version[2] < 9)

Hosts == {n \in DOMAIN nodes : heketi[n].state = "online"}

\* Free space (KiB) left on the recorded device of host n while a PVC of
\* pvc_size GB has a brick on it.
FreeOnHost(n) == nodes[n] - pvc_size * GB

MostConstrainedFree ==
    CHOOSE v \in {FreeOnHost(n) : n \in Hosts} :
        \A n \in Hosts : v <= FreeOnHost(n)

\* C7: when _pv_resize(exceed_free_space=True) has asked for the resize, the
\* growth from the PVC's current size to the requested size needs more
\* space than is free on the most constrained selected node.
C7_ExceedingRequestNeedsMoreThanFree ==
    (scn = "pv_resize" /\ pc = "wait_resize_failed") =>
        (resize_request - pvc_size) * GB > MostConstrainedFree

\* C8: when _pv_resize(exceed_free_space=False) has resized the PVC, the
\* requested size did not exceed what was free, and the most constrained
\* selected node has less than one whole gigabyte free.
C8_ExactResizeLeavesNoWholeGigabyte ==
    (scn = "pv_resize" /\ pc = "write") =>
        /\ pvc_size = resize_request
        /\ MostConstrainedFree >= 0
        /\ MostConstrainedFree < GB

\* The first three nodes are exactly the nodes Heketi has enabled.
ThreeEnabledNodes ==
    /\ Len(heketi) >= 3
    /\ \A n \in 1..Len(heketi) : (heketi[n].state = "online") <=> (n <= 3)

\* Free space (KiB) left on the first device of node n once the first
\* volume of 1 GB has a brick on it.
FreeLeftOn(n) == heketi[n].devices[1].free - 1 * GB

MostConstrainedLeft ==
    CHOOSE v \in {FreeLeftOn(n) : n \in 1..3} :
        \A n \in 1..3 : v <= FreeLeftOn(n)

\* C9: in test_volume_creation_no_free_devices the size asked for the second
\* volume is larger than the space left on the most constrained of the
\* three enabled nodes after the first volume; the test passes only if the
\* second creation raised ExecutionError; if the creation returned, the test
\* does not pass and a created volume is registered for deletion (or, once
\* the cleanups ran, deleted).
C9_SecondVolumeMustFail ==
    scn = "no_free_devices" =>
        /\ (pc = "second_volume" /\ ThreeEnabledNodes) =>
                min_space_gb * GB > MostConstrainedLeft
        /\ (pc = "done" /\ exc = "none") => vol_fail = "ExecutionError"
        /\ vol_fail \in {"created", "falsy"} => exc /= "none"
        /\ vol_fail = "created" =>
                \/ DeleteRegistered(Res("volume", 2))
                \/ Res("volume", 2) \notin cluster

\* the second creation returned a volume, the test failed and the volume was
\* deleted by the cleanups
C9_Witness ==
    /\ scn = "no_free_devices" /\ pc = "done"
    /\ vol_fail = "created" /\ exc = "AssertionError"
    /\ Res("volume", 2) \in created \ cluster
    /\ min_space_gb = 4

\* C10: the device test passes only if the creation attempted while the
\* chosen device was offline failed and the creation after the re-enable
\* succeeded; a volume created while the device is offline fails the test
\* and is registered for deletion (or, once the cleanups ran, deleted).
C10_OfflineDeviceBlocksCreation ==
    scn = "disabling_device" =>
        /\ (pc = "finally" /\ vol_fail /= "") =>
                heketi[device_id[1]].devices[device_id[2]].state = "offline"
        /\ out_final /= "" =>
                heketi[device_id[1]].devices[device_id[2]].state = "online"
        /\ (pc = "done" /\ exc = "none") =>
                /\ vol_fail = "AssertionError"
                /\ out_final = "created"
        /\ vol_fail = "created" =>
                /\ exc = "AssertionError"
                /\ \/ DeleteRegistered(Res("volume", 2))
                   \/ Res("volume", 2) \notin cluster

\* a volume was created while the device was offline: the finally clause is
\* about to run with the failure in flight and the delete registered
C10_Witness ==
    /\ scn = "disabling_device" /\ pc = "finally"
    /\ vol_fail = "created" /\ exc = "AssertionError"
    /\ Res("volume", 2) \in cluster
    /\ DeleteRegistered(Res("volume", 2))

SkipSteps == {"first_device_online", "find_nodes", "setUp", "test_method"}

C2_StepFailureState ==
    /\ exc \in {"none", "AssertionError", "SkipTest", "ConfigError",
                "ExecutionError", "TypeError", "ValueError"}
    /\ failed_step /= "" <=> exc /= "none"
    /\ exc = "ConfigError" => failed_step = "hello_heketi"
    /\ exc = "TypeError" =>
          failed_step \in {"heketi_volume_create", "volume_not_created"}
    /\ exc = "ValueError" => failed_step = "get_io_time"
    /\ exc = "SkipTest" => failed_step \in SkipSteps
    /\ caught /= {} =>
          /\ caught = {"heketi_volume_create"}
          /\ \/ scn = "no_free_devices" /\ vol_fail = "ExecutionError"
             \/ scn = "disabling_device" /\ vol_fail = "AssertionError"

DeviceWasDisabled ==
    \E i \in 1..Len(device_calls) :
        device_calls[i] = Call("heketi_device_disable", "ok")

\* an enable call for device_id was issued after the disable call
EnableIssuedAfterDisable ==
    \E i, j \in 1..Len(device_calls) :
        /\ i < j
        /\ device_calls[i] = Call("heketi_device_disable", "ok")
        /\ device_calls[j].fn = "heketi_device_enable"

\* C11: in the device test, once the chosen device has been disabled, an
\* enable call for it has been issued whenever control is past the try
\* statement - in the rest of the test, in the cleanups and at the end -
\* whichever way the try block was left.
C11_DeviceReenabledOnEveryPath ==
    (scn = "disabling_device" /\ DeviceWasDisabled
        /\ pc \notin {"try", "finally"}) => EnableIssuedAfterDisable

\* the creation raised ExecutionError, which the except clause does not
\* catch: the test ended with it after the enable call was issued
C11_Witness ==
    /\ scn = "disabling_device" /\ pc = "done"
    /\ vol_fail = "ExecutionError" /\ exc = "ExecutionError"
    /\ EnableIssuedAfterDisable

\* the 4th and later nodes of node_id_list, in list order
LaterNodes == [k \in 1..(Len(heketi) - 3) |-> k + 3]

\* C12: in the device test, when Heketi lists more than three nodes, the
\* node-disabling step has called heketi_node_disable for exactly the 4th
\* and later nodes, each once, left the first three nodes as they were, and
\* registered heketi_node_enable for exactly those nodes.
C12_DisablesFourthAndLaterNodes ==
    (scn = "disabling_device" /\ pc = "disable_devices" /\ node_i = 1
        /\ Len(heketi) > 3) =>
        /\ node_calls = LaterNodes
        /\ \A n \in 1..3 : heketi[n].state = heketi0[n].state
        /\ [i \in 1..Len(cleanups) |-> cleanups[i]] =
             [k \in 1..Len(LaterNodes) |->
                Cleanup("heketi_node_enable", Res("node", LaterNodes[k]))]

\* the least free space of a first device over the first three nodes, in GB
TrueMinSpaceGb ==
    (CHOOSE v \in {heketi[n].devices[1].free : n \in FirstNodes(heketi)} :
        \A n \in FirstNodes(heketi) : v <= heketi[n].devices[1].free) \div GB

\* C13: in test_volume_creation_no_free_devices, min_space_gb is the
\* minimum over the first three nodes of the first device's free space, in
\* whole gigabytes, so the test gets past the free-space assertion only if
\* every one of those nodes has more than 3 GB free on its first device.
C13_MinSpaceIsMinimumOverNodes ==
    (scn = "no_free_devices" /\ pc = "first_volume") =>
        /\ min_space_gb = TrueMinSpaceGb
        /\ \A n \in FirstNodes(heketi) :
              heketi[n].devices[1].free > 3 * GB

\* the nodes that were online with an online device of at least 3 GB free
\* when the test started
UsableNodes ==
    {n \in 1..Len(heketi0) :
        /\ heketi0[n].state = "online"
        /\ \E j \in 1..Len(heketi0[n].devices) :
              /\ heketi0[n].devices[j].state = "online"
              /\ heketi0[n].devices[j].free >= min_free_space}

\* C14: after _pv_resize's discovery loop the 'nodes' map holds at most
\* three nodes, all of them still enabled, so available_size_gb is the
\* least free space in whole GB over the nodes the PVC can be placed on;
\* the test is skipped exactly when fewer than three nodes are usable.
C14_NodesMapIsEnabledUsableNodes ==
    scn = "pv_resize" =>
        /\ pc \in {"select", "create_sc"} =>
              /\ Cardinality(DOMAIN nodes) <= 3
              /\ \A n \in DOMAIN nodes : heketi[n].state = "online"
        /\ pc = "create_sc" =>
              /\ Cardinality(UsableNodes) >= 3
              /\ available_size_gb * GB <= MostConstrainedFree + pvc_size * GB
              /\ (available_size_gb + 1) * GB
                     > MostConstrainedFree + pvc_size * GB
        /\ failed_step = "find_nodes" => Cardinality(UsableNodes) < 3

\* the devices of node n that are online
OnlineDevicesOf(h, n) ==
    {j \in 1..Len(h[n].devices) : h[n].devices[j].state = "online"}

\* the online nodes with devices: the nodes the discovery loop inspects
InspectedNodes ==
    {n \in 1..Len(heketi0) :
        heketi0[n].state = "online" /\ heketi0[n].devices /= <<>>}

\* an enable cleanup is registered for device j of node n
EnableRegistered(n, j) ==
    \E i \in 1..Len(cleanups) :
        cleanups[i] = Cleanup("heketi_device_enable", DevRes(n, j))

\* C15: once _pv_resize's discovery loop is over, every node recorded in
\* 'nodes' has exactly one device online, with at least 3 GB free and with
\* the recorded free space; every other device of an inspected node that
\* was online is disabled (its enable cleanup registered), and devices that
\* were offline, and the devices of nodes that were not inspected, are
\* untouched.
C15_OneRecordedDevicePerNode ==
    (scn = "pv_resize" /\ pc \notin {"discover", "cleanup", "done"}) =>
        /\ \A n \in DOMAIN nodes :
              /\ Cardinality(OnlineDevicesOf(heketi, n)) = 1
              /\ \A j \in OnlineDevicesOf(heketi, n) :
                    /\ heketi[n].devices[j].free >= min_free_space
                    /\ heketi[n].devices[j].free = nodes[n]
        /\ \A n \in InspectedNodes :
              /\ n \notin DOMAIN nodes => OnlineDevicesOf(heketi, n) = {}
              /\ \A j \in OnlineDevicesOf(heketi0, n) :
                    j \notin OnlineDevicesOf(heketi, n) =>
                        EnableRegistered(n, j)
        /\ \A n \in 1..Len(heketi0) :
              \A j \in 1..Len(heketi0[n].devices) :
                 (n \notin InspectedNodes
                     \/ j \notin OnlineDevicesOf(heketi0, n)) =>
                    /\ heketi[n].devices[j] = heketi0[n].devices[j]
                    /\ ~EnableRegistered(n, j)

\* the loop disabled the second device of a recorded node and a device with
\* too little free space, and skipped an offline device
C15_Witness ==
    /\ scn = "pv_resize" /\ pc = "select"
    /\ Cardinality(DOMAIN nodes) >= 3
    /\ \E n \in DOMAIN nodes :
          /\ Cardinality(OnlineDevicesOf(heketi0, n)) = 2
          /\ heketi0[n].devices[2].free >= min_free_space
          /\ heketi0[n].devices[1].free >= min_free_space
    /\ \E n \in DOMAIN nodes : heketi0[n].devices[1].free < min_free_space
    /\ \E n \in DOMAIN nodes : heketi0[n].devices[1].state = "offline"

\* the enabled / disabled state of every node and device of h
EnabledStates(h) ==
    [n \in 1..Len(h) |->
        [state |-> h[n].state,
         devices |-> [j \in 1..Len(h[n].devices) |-> h[n].devices[j].state]]]

\* C16: once a test that disables Heketi nodes or devices is over and its
\* cleanups have run, every node and device is enabled or disabled as it
\* was before the test.
C16_HeketiStateRestored ==
    (scn \in {"pv_resize", "no_free_devices", "disabling_device"}
        /\ pc = "done") => EnabledStates(heketi) = EnabledStates(heketi0)

\* cleanup c ran before the j-th cleanup of the teardown
RanBefore(c, j) == \E i \in 1..(j - 1) : teardown[i] = c

\* the j-th cleanup of the teardown deletes a resource of this kind
Deletes(j, kind) ==
    teardown[j].fn = "oc_delete" /\ teardown[j].res.kind = kind

\* the PVCs the fixture created
CreatedPvcs == {res \in created : res.kind = "pvc"}

\* C17: at the teardown of the gluster-stability fixture a PVC's delete is
\* issued before the wait for its absence; the DeploymentConfig is scaled
\* to 0 before it is deleted and deleted before the PVC it mounts; the
\* storage class is deleted only after every created PVC was deleted and
\* waited for; and nothing runs after the deletion of the secret.
C17_TeardownOrder ==
    scn = "stability" =>
        \A j \in 1..Len(teardown) :
            /\ teardown[j].fn = "wait_for_resource_absence" =>
                  RanBefore(Cleanup("oc_delete", teardown[j].res), j)
            /\ Deletes(j, "dc") =>
                  RanBefore(Cleanup("scale_dc_pod_amount_and_wait",
                                    teardown[j].res), j)
            /\ (Deletes(j, "pvc") /\ teardown[j].res = Res("pvc", 0)
                    /\ Res("dc", 0) \in created) =>
                  RanBefore(Cleanup("oc_delete", Res("dc", 0)), j)
            /\ Deletes(j, "sc") =>
                  \A res \in CreatedPvcs :
                     /\ RanBefore(Cleanup("oc_delete", res), j)
                     /\ RanBefore(Cleanup("wait_for_resource_absence", res), j)
            /\ Deletes(j, "secret") => j = Len(teardown)

\* C18: whenever _pv_resize is not skipped, available_size_gb is at least 3
\* and the size handed to resize_pvc - available_size_gb when
\* exceed_free_space, available_size_gb - 1 otherwise - is greater than the
\* PVC's size of 1 GB.
C18_ResizeIsAnExpansion ==
    scn = "pv_resize" =>
        /\ available_size_gb /= 0 => available_size_gb >= min_free_space_gb
        /\ resize_request /= 0 =>
              /\ resize_request > pvc_size_gb
              /\ resize_request = IF exceed_free_space
                                  THEN available_size_gb
                                  ELSE available_size_gb - pvc_size_gb

\* the smallest request: 3 GB available, the PVC is resized to 2 GB
C18_Witness ==
    /\ scn = "pv_resize" /\ pc = "write" /\ ~exceed_free_space
    /\ available_size_gb = 3 /\ resize_request = 2

\* the sub-state the claim requires of a service
RequiredSubState(svc) ==
    IF svc = "gluster-block-target" THEN "exited" ELSE "running"

\* on every hosting node all three services were found active, each in its
\* required sub-state
AllServicesChecked ==
    \A n \in 1..g_nodes :
        \A svc \in {"gluster-blockd", "tcmu-runner", "gluster-block-target"} :
            <<n, svc, <<"active", RequiredSubState(svc)>>>> \in svc_checks

\* C19: the restart test restarts the service it is run with once, on the
\* first hosting node, and only when there are more than two hosting nodes;
\* the volume validation runs only after every service on every hosting
\* node was found active in its required sub-state, and the test passes
\* only after that validation.
C19_RestartThenAllServicesActive ==
    scn = "restart_services" =>
        /\ restarts \in {<<>>, <<(<<service, 1>>)>>}
        /\ restarts /= <<>> => g_nodes > 2
        /\ validated => (restarts /= <<>> /\ AllServicesChecked)
        /\ (pc = "done" /\ exc = "none") => validated

\* a passing run with four hosting nodes
C19_Witness ==
    /\ scn = "restart_services" /\ pc = "done" /\ exc = "none"
    /\ service = "tcmu-runner" /\ g_nodes = 4
    /\ restarts = <<(<<"tcmu-runner", 1>>)>>
    /\ Cardinality(svc_checks) = 12

\* C20: the IO check of restart_block_hosting_volume_wait_for_heal passes
\* whenever the pod's last write by the second reading is later than its
\* last write before the restart, and fails whenever the pod has not
\* written since.
C20_IoCheckFollowsRealTime ==
    (scn = "restart_volume" /\ resume_io_time /= -1) =>
        /\ write_after > write_before => failed_step /= "io_resumed"
        /\ write_after = write_before => failed_step = "io_resumed"

\* the run ids the classes set up so far have logged
LoggedRunIds ==
    {cls_run_id[i] : i \in {k \in 1..Len(cls_run_id) : cls_run_id[k] /= <<>>}}

\* every class that completed its set-up holds the run id of the shared
\* configuration
C21_OneRunId ==
    scn = "setUpClass" =>
        /\ LoggedRunIds \subseteq {g_config}
        /\ LoggedRunIds /= {} => g_config /= <<>>

\* C21: the run id is stored by the first setUpClass that completes while
\* the shared configuration has none, is never changed afterwards, and is
\* the id every class set up in the run holds.
C21_RunIdSetOnce ==
    /\ []C21_OneRunId
    /\ [][g_config /= <<>> => g_config' = g_config]_vars
    /\ [][(g_config = <<>> /\ Len(cls_run_id') > Len(cls_run_id)
             /\ exc' = "none") => g_config' = <<clock>>]_vars

\* three classes were set up while the clock advanced: the second failed,
\* the first and the third hold the id stored at the start of the run
C21_Witness ==
    /\ scn = "setUpClass"
    /\ Len(cls_run_id) = 3 /\ clock = MaxClock
    /\ g_config = <<0>>
    /\ cls_run_id = <<g_config, <<>>, g_config>>
====
